---- MODULE Spec2Model ----
(***************************************************************************)
(* A model of the Kijiji lead pipeline (app/main.py and data_pipeline/).   *)
(*                                                                         *)
(* Text is a sequence of one-character strings, so that lower(), split(),  *)
(* join(), clean() and the substring test are computed, character by       *)
(* character, as Python computes them.  Python's None is the value None    *)
(* below, which is no text.                                                *)
(*                                                                         *)
(* The specifications share the variables:                                  *)
(*   Spec       one run of run_pipeline (snapshot, parse, visit, join,     *)
(*              dedup, export);                                            *)
(*   SpecParse  parse_all_snapshots over bounded snapshot files;           *)
(*   SpecKey    simple_property_key over bounded records;                  *)
(*   SpecScore  lead_score over bounded records;                           *)
(*   SpecVisit  the detail-visit loop of run_pipeline over up to MaxUrls   *)
(*              urls;                                                      *)
(*   SpecRun    parse_all_snapshots on any RAW_DIR, with no file too, and  *)
(*              what run_pipeline does after it.                           *)
(*                                                                         *)
(* Exceptions are modelled where the code retries or catches them: the     *)
(* attempts of fetch_and_wait, scrape_detail and dump_detail inside the    *)
(* try of the visit loop.  The other file writes succeed, the parsed table *)
(* is read back as it was written, and the two export formats are not told *)
(* apart.  Timestamps (scraped_ts, file names) are left out.               *)
(***************************************************************************)
EXTENDS Integers, Sequences, FiniteSets, TLC

VARIABLES
    pc,         \* position of the running function
    row,        \* SpecKey, SpecScore: the record handed to the pure function
    key,        \* SpecKey: simple_property_key(row)
    key2,       \* SpecKey: simple_property_key of row re-keyed by its own key
    score,      \* SpecScore: lead_score(row)
    raw_dir,    \* RAW_DIR: the saved search snapshots, in file-sorted order
    f_idx,      \* parse_all_snapshots: number of files parsed so far
    all_rows,   \* parse_all_snapshots: all_rows
    parsed,     \* the table parse_all_snapshots writes (ListingSummary rows)
    parsed_cols,\* the columns of that table, {} while it is not written
    df,         \* run_pipeline: df
    page_i,     \* snapshot_search_pages: page number i
    attempt,    \* fetch_and_wait: attempts made by the current call
    urls,       \* run_pipeline: urls
    i,          \* run_pipeline: 1-based index of the detail visit
    d_cur,      \* run_pipeline: d, the last DetailResult scrape_detail returned
    details,    \* run_pipeline: details
    outcome,    \* history: how each detail visit ended
    started,    \* number of detail visits begun (page.goto calls)
    pauses,     \* number of sleep(random.uniform(0.4, 0.9)) calls taken
    out,        \* run_pipeline: the enriched table before dedup
    best,       \* run_pipeline: the table after dedup
    exported    \* the rows written to the export file, None before

vars == <<pc, row, key, key2, score, raw_dir, f_idx, all_rows, parsed,
          parsed_cols, df, page_i, attempt, urls, i, d_cur, details, outcome, started, pauses,
          out, best, exported>>

(***************************************************************************)
(* Bounds of the model.                                                    *)
(***************************************************************************)
MaxLen == 3         \* SpecKey: longest address_hint / location_text
MaxPieces == 2      \* SpecScore: pieces a description is put together from
MaxCards == 3       \* cards in all the search snapshots together
MaxFiles == 2       \* SpecParse: snapshot files in RAW_DIR
MaxUrls == 4        \* SpecVisit: listings with a url in the snapshots

(***************************************************************************)
(* Python values and text.                                                 *)
(***************************************************************************)
None == <<"<None>">>

\* Python truthiness of an Optional[str]: None and "" are falsy.
truthy(x) == x # None /\ x # <<>>

\* a or b
Or(a, b) == IF truthy(a) THEN a ELSE b

Min(a, b) == IF a <= b THEN a ELSE b

Upper == <<"A","B","C","D","E","F","G","H","I","J","K","L","M","N","O","P","Q","R","S","T","U","V","W","X","Y","Z">>
Lower == <<"a","b","c","d","e","f","g","h","i","j","k","l","m","n","o","p","q","r","s","t","u","v","w","x","y","z">>

lower_ch(c) ==
    IF \E k \in 1..Len(Upper) : Upper[k] = c
    THEN Lower[CHOOSE k \in 1..Len(Upper) : Upper[k] = c]
    ELSE c

\* str.lower()
lower(s) == [k \in 1..Len(s) |-> lower_ch(s[k])]

\* the characters str.split() and the regex class \s treat as whitespace
IsSpace(c) == c \in {" ", "\t", "\n"}

\* str.split(): the maximal runs of non-whitespace characters, in order
RECURSIVE SplitFrom(_, _, _, _)
SplitFrom(s, k, word, words) ==
    IF k > Len(s)
    THEN IF word = <<>> THEN words ELSE Append(words, word)
    ELSE IF IsSpace(s[k])
         THEN SplitFrom(s, k + 1, <<>>,
                        IF word = <<>> THEN words ELSE Append(words, word))
         ELSE SplitFrom(s, k + 1, Append(word, s[k]), words)

split(s) == SplitFrom(s, 1, <<>>, <<>>)

\* sep.join(words)
RECURSIVE join(_, _)
join(sep, words) ==
    IF words = <<>> THEN <<>>
    ELSE IF Len(words) = 1 THEN words[1]
    ELSE words[1] \o sep \o join(sep, Tail(words))

\* s in hay
Contains(hay, s) ==
    \E o \in 0..(Len(hay) - Len(s)) : \A j \in 1..Len(s) : hay[o + j] = s[j]

\* s.startswith(p)
startswith(s, p) == Len(s) >= Len(p) /\ SubSeq(s, 1, Len(p)) = p

(***************************************************************************)
(* data_pipeline/scrape_kijiji.py: clean                                   *)
(***************************************************************************)
\* re.sub(r"\s+", " ", t): every maximal whitespace run becomes one space
RECURSIVE CollapseFrom(_, _, _)
CollapseFrom(t, k, acc) ==
    IF k > Len(t) THEN acc
    ELSE IF IsSpace(t[k])
         THEN CollapseFrom(t, k + 1,
                           IF k > 1 /\ IsSpace(t[k - 1]) THEN acc
                           ELSE Append(acc, " "))
         ELSE CollapseFrom(t, k + 1, Append(acc, t[k]))

\* str.strip()
RECURSIVE strip(_)
strip(t) ==
    IF t = <<>> THEN t
    ELSE IF IsSpace(t[1]) THEN strip(Tail(t))
    ELSE IF IsSpace(t[Len(t)]) THEN strip(SubSeq(t, 1, Len(t) - 1))
    ELSE t

clean(t) == IF t = None THEN None ELSE strip(CollapseFrom(t, 1, <<>>))

(***************************************************************************)
(* data_pipeline/scrape_kijiji.py: the card parser.                        *)
(*                                                                         *)
(* A search page is the sequence of its card elements (the matches of      *)
(* CARD_SELS).  A card holds, per field, what each selector of the field's *)
(* list yields on it: for a text field the list card.css(sel).getall(),    *)
(* for url the value card.css(sel).get(), None when nothing matches.       *)
(***************************************************************************)
\* "".join(got)
RECURSIVE concat(_)
concat(got) == IF got = <<>> THEN <<>> ELSE got[1] \o concat(Tail(got))

RECURSIVE first_nonempty_text(_)
first_nonempty_text(sels) ==
    IF sels = <<>> THEN None
    ELSE LET got == sels[1]
             text == clean(concat(got))
         IN  IF got # <<>> /\ text # <<>> THEN text
             ELSE first_nonempty_text(Tail(sels))

RECURSIVE first_attr(_)
first_attr(sels) ==
    IF sels = <<>> THEN None
    ELSE LET val == sels[1]
         IN  IF truthy(val) /\ truthy(clean(val)) THEN clean(val)
             ELSE first_attr(Tail(sels))

SiteOrigin == <<"h","t","t","p","s",":","/","/","w","w","w",".","k","i","j","i","j","i",".","c","a">>

absolutize(url_rel) ==
    IF ~truthy(url_rel) THEN None
    ELSE IF startswith(url_rel, <<"h","t","t","p">>) THEN url_rel
    ELSE SiteOrigin \o url_rel

\* the fields parse_search_html resolves for one card
card_fields(card) ==
    [source |-> "kijiji",
     url |-> absolutize(first_attr(card.url)),
     title |-> first_nonempty_text(card.title),
     price_text |-> first_nonempty_text(card.price),
     location_text |-> first_nonempty_text(card.loc),
     posted_text |-> first_nonempty_text(card.posted)]

\* the variant that keeps a card only when it has both a title and a url
card_rows_both(card) ==
    LET r == card_fields(card)
    IN  IF ~truthy(r.title) \/ ~truthy(r.url) THEN <<>> ELSE <<r>>

\* the rows one card adds: none when it has neither a title nor a url
card_rows(card) ==
    LET r == card_fields(card)
    IN  IF ~truthy(r.title) /\ ~truthy(r.url) THEN <<>> ELSE <<r>>

RECURSIVE parse_search_html(_)
parse_search_html(html) ==
    IF html = <<>> THEN <<>>
    ELSE card_rows(html[1]) \o parse_search_html(Tail(html))

\* DataFrame.drop_duplicates(subset=["url"]), keep="last"
RECURSIVE drop_duplicates_url_last(_)
drop_duplicates_url_last(rows) ==
    IF rows = <<>> THEN <<>>
    ELSE IF \E k \in 2..Len(rows) : rows[k].url = rows[1].url
         THEN drop_duplicates_url_last(Tail(rows))
         ELSE <<rows[1]>> \o drop_duplicates_url_last(Tail(rows))

\* DataFrame.drop_duplicates(subset=["url"]): a row stays unless an earlier
\* row has an equal url, null urls counting as equal to each other
RECURSIVE DropSeen(_, _)
DropSeen(rows, seen) ==
    IF rows = <<>> THEN <<>>
    ELSE IF rows[1].url \in seen THEN DropSeen(Tail(rows), seen)
    ELSE <<rows[1]>> \o DropSeen(Tail(rows), seen \cup {rows[1].url})

drop_duplicates_url(rows) == DropSeen(rows, {})

(***************************************************************************)
(* app/main.py: simple_property_key                                        *)
(***************************************************************************)
simple_property_key(r) ==
    LET base == lower(Or(r.address_hint, Or(r.location_text, <<>>)))
    IN  join(<<" ">>, split(base))

(***************************************************************************)
(* app/main.py: lead_score                                                 *)
(***************************************************************************)
Keywords == <<
    [kw |-> <<"p","r","o","p","e","r","t","y"," ","m","a","n","a","g","e","m","e","n","t">>, pts |-> 25],
    [kw |-> <<"l","o","n","g"," ","t","e","r","m">>, pts |-> 10],
    [kw |-> <<"1"," ","y","e","a","r"," ","l","e","a","s","e">>, pts |-> 8],
    [kw |-> <<"m","a","i","n","t","e","n","a","n","c","e">>, pts |-> 6],
    [kw |-> <<"c","r","e","d","i","t"," ","c","h","e","c","k">>, pts |-> 5],
    [kw |-> <<"r","e","s","p","o","n","s","i","b","l","e"," ","t","e","n","a","n","t">>, pts |-> 4] >>

\* the for loop over the intent cues, from cue k on, adding to sc
RECURSIVE IntentLoop(_, _, _)
IntentLoop(desc, k, sc) ==
    IF k > Len(Keywords) THEN sc
    ELSE IntentLoop(desc, k + 1,
                    IF Contains(desc, Keywords[k].kw)
                    THEN sc + Keywords[k].pts ELSE sc)

\* the loop with a break after the first cue found
RECURSIVE IntentLoopBreak(_, _, _)
IntentLoopBreak(desc, k, sc) ==
    IF k > Len(Keywords) THEN sc
    ELSE IF Contains(desc, Keywords[k].kw) THEN sc + Keywords[k].pts
    ELSE IntentLoopBreak(desc, k + 1, sc)

\* the variant of lead_score whose loop is IntentLoopBreak
lead_score_break(r) ==
    LET desc == lower(Or(r.desc, <<>>))
        s1 == IF truthy(r.posted_iso) THEN 20 ELSE 8
        s2 == IF truthy(r.seller_name) THEN s1 + 8 ELSE s1
        s3 == IF truthy(r.address_hint) THEN s2 + 6 ELSE s2
        s4 == IntentLoopBreak(desc, 1, s3)
        s5 == IF truthy(r.phone_found) THEN s4 + 30 ELSE s4
        s6 == IF truthy(r.email_found) THEN s5 + 18 ELSE s5
    IN  Min(s6, 100)

lead_score(r) ==
    LET desc == lower(Or(r.desc, <<>>))
        s1 == IF truthy(r.posted_iso) THEN 20 ELSE 8
        s2 == IF truthy(r.seller_name) THEN s1 + 8 ELSE s1
        s3 == IF truthy(r.address_hint) THEN s2 + 6 ELSE s2
        s4 == IntentLoop(desc, 1, s3)
        s5 == IF truthy(r.phone_found) THEN s4 + 30 ELSE s4
        s6 == IF truthy(r.email_found) THEN s5 + 18 ELSE s5
    IN  Min(s6, 100)

(***************************************************************************)
(* Defaults of the variables a specification does not use.                 *)
(***************************************************************************)
NoRow == [address_hint |-> None, location_text |-> None]

KeyIdle ==
    /\ row = NoRow /\ key = None /\ key2 = None

ScoreIdle == score = 0

ParseIdle ==
    /\ raw_dir = <<>> /\ f_idx = 0 /\ all_rows = <<>> /\ parsed = <<>>
    /\ parsed_cols = {}

PipelineIdle ==
    /\ df = <<>> /\ page_i = 0 /\ attempt = 0 /\ urls = <<>> /\ i = 0
    /\ d_cur = None /\ details = <<>> /\ outcome = <<>> /\ started = 0
    /\ pauses = 0 /\ out = <<>> /\ best = <<>> /\ exported = None

snapshot_vars == <<page_i, attempt>>
visit_vars == <<urls, i, d_cur, details, outcome, started, pauses>>
table_vars == <<out, best, exported>>
pipeline_vars == <<df, snapshot_vars, visit_vars, table_vars>>
parse_vars == <<raw_dir, f_idx, all_rows, parsed, parsed_cols>>

(***************************************************************************)
(* SpecKey: simple_property_key applied to a bounded record, and applied   *)
(* again to the record whose address_hint is replaced by the first key.    *)
(***************************************************************************)
KeyAlphabet == {"a", "B", " "}

RECURSIVE TextsUpTo(_, _)
TextsUpTo(A, n) ==
    IF n = 0 THEN {<<>>}
    ELSE LET shorter == TextsUpTo(A, n - 1)
         IN  shorter \cup {Append(t, c) : t \in shorter, c \in A}

KeyTexts == TextsUpTo(KeyAlphabet, MaxLen) \cup {None}

InitKey ==
    /\ pc = "key_start"
    /\ row \in [address_hint : KeyTexts, location_text : KeyTexts]
    /\ key = None /\ key2 = None
    /\ ScoreIdle /\ ParseIdle /\ PipelineIdle

\* out["property_key"] = out.apply(simple_property_key, axis=1), one row
KeyApply ==
    /\ pc = "key_start"
    /\ key' = simple_property_key(row)
    /\ pc' = "key_done"
    /\ UNCHANGED <<row, key2, score, parse_vars, pipeline_vars>>

\* the key re-applied to its own output as if it were an address hint
KeyReapply ==
    /\ pc = "key_done"
    /\ key2' = simple_property_key([row EXCEPT !.address_hint = key])
    /\ pc' = "key_again"
    /\ UNCHANGED <<row, key, score, parse_vars, pipeline_vars>>

NextKey == KeyApply \/ KeyReapply

SpecKey == InitKey /\ [][NextKey]_vars

\* the text the stated policy chooses: address_hint when it is present and
\* non-empty after normalization, else location_text
PolicyChoice(r) ==
    IF r.address_hint # None /\ clean(lower(r.address_hint)) # <<>>
    THEN r.address_hint
    ELSE r.location_text

\* C4: the key is the text the policy chooses (address_hint if present and
\* non-empty after normalization, else location_text), lower-cased, with
\* whitespace runs collapsed to single spaces and trimmed; the empty key when
\* the chosen text is absent.
C4_KeyFollowsPolicy ==
    pc \in {"key_done", "key_again"} =>
        key = IF PolicyChoice(row) = None THEN <<>>
              ELSE clean(lower(PolicyChoice(row)))

\* C10: re-applying the key function to the record whose address_hint is
\* replaced by its key returns the same key.
C10_KeyIdempotent ==
    pc = "key_again" => key2 = key

(***************************************************************************)
(* SpecScore: lead_score applied to a bounded record.  A description is    *)
(* None or up to MaxPieces pieces put one after the other.                 *)
(***************************************************************************)
Pieces == {
    <<"P","r","o","p","e","r","t","y"," ","M","a","n","a","g","e","m","e","n","t">>,
    <<"l","o","n","g"," ","t","e","r","m">>,
    <<"L","O","N","G"," "," ","T","E","R","M">>,
    <<"1"," ","Y","e","a","r"," ","l","e","a","s","e">>,
    <<"M","A","I","N","T","E","N","A","N","C","E">>,
    <<"c","r","e","d","i","t"," ","c","h","e","c","k">>,
    <<"R","e","s","p","o","n","s","i","b","l","e"," ","t","e","n","a","n","t">>,
    <<" ">> }

RECURSIVE DescsUpTo(_)
DescsUpTo(n) ==
    IF n = 0 THEN {<<>>}
    ELSE LET shorter == DescsUpTo(n - 1)
         IN  shorter \cup {t \o p : t \in shorter, p \in Pieces}

Descs == DescsUpTo(MaxPieces) \cup {None}

Opt == {None, <<"x">>}

InitScore ==
    /\ pc = "score_start"
    /\ row \in [posted_iso : {None, <<>>, <<"x">>}, seller_name : Opt,
                 address_hint : Opt, desc : Descs, phone_found : Opt,
                 email_found : Opt]
    /\ score = 0
    /\ key = None /\ key2 = None /\ ParseIdle /\ PipelineIdle

\* out["lead_score"] = out.apply(lead_score, axis=1), one row
ScoreApply ==
    /\ pc = "score_start"
    /\ score' = lead_score(row)
    /\ pc' = "score_done"
    /\ UNCHANGED <<row, key, key2, parse_vars, pipeline_vars>>

NextScore == ScoreApply

SpecScore == InitScore /\ [][NextScore]_vars

\* the phrase kw (lower case) occurs in desc, letter case ignored
FoundCI(desc, kw) ==
    /\ desc # None
    /\ \E o \in 0..(Len(desc) - Len(kw)) :
          \A j \in 1..Len(kw) : lower_ch(desc[o + j]) = kw[j]

Pts(b, n) == IF b THEN n ELSE 0

\* the sum of the scoring table's applicable signals
SignalSum(r) ==
      (IF truthy(r.posted_iso) THEN 20 ELSE 8)
    + Pts(truthy(r.seller_name), 8)
    + Pts(truthy(r.address_hint), 6)
    + Pts(FoundCI(r.desc, Keywords[1].kw), 25)
    + Pts(FoundCI(r.desc, Keywords[2].kw), 10)
    + Pts(FoundCI(r.desc, Keywords[3].kw), 8)
    + Pts(FoundCI(r.desc, Keywords[4].kw), 6)
    + Pts(FoundCI(r.desc, Keywords[5].kw), 5)
    + Pts(FoundCI(r.desc, Keywords[6].kw), 4)
    + Pts(truthy(r.phone_found), 30)
    + Pts(truthy(r.email_found), 18)

\* C3: lead_score returns min(100, S), S the sum of all applicable signals of
\* the scoring table (several intent phrases counting together), and so an
\* integer in [0,100] that the record alone determines.
C3_ScoreIsClampedSum ==
    pc = "score_done" =>
        /\ score = Min(100, SignalSum(row))
        /\ score \in 0..100

\* a scored record with two intent phrases whose signals sum to more than 100
C3_Witness ==
    /\ pc = "score_done"
    /\ FoundCI(row.desc, Keywords[1].kw) /\ FoundCI(row.desc, Keywords[4].kw)
    /\ SignalSum(row) > 100
    /\ score = 100

(***************************************************************************)
(* The search pages the site can serve: sequences of the cards below.      *)
(***************************************************************************)
NoText == << <<>>, <<>> >>      \* neither selector of a text field matches

\* title and relative url by the first selectors, a location
CardA == [title |-> << << <<"2"," ","B","e","d">> >>, <<>> >>,
          url |-> << <<"/","a">>, <<"/","a">> >>,
          price |-> NoText,
          loc |-> << << <<"M","a","i","n"," "," ","S","t">> >>, <<>> >>,
          posted |-> NoText]

\* the same listing again under another title: the first title selector
\* yields only whitespace, the second the title in two text nodes
CardA2 == [title |-> << << <<" ">> >>, << <<"F","l","a","t">>, <<"\n">> >> >>,
           url |-> << <<" ","/","a">>, None >>,
           price |-> NoText,
           loc |-> << <<>>, << <<"m","a","i","n"," ","s","t">> >> >>,
           posted |-> NoText]

\* no title; an absolute url by the second selector only
CardB == [title |-> NoText,
          url |-> << None, <<"h","t","t","p",":","b">> >>,
          price |-> NoText,
          loc |-> << << <<"M","a","i","n"," "," ","S","t">> >>, <<>> >>,
          posted |-> NoText]

\* a title and no url
CardT == [title |-> << <<>>, << <<"S","u","i","t","e">> >> >>,
          url |-> << None, None >>,
          price |-> NoText, loc |-> NoText, posted |-> NoText]

\* an ad slot: whitespace where the title and the link would be
CardW == [title |-> << << <<" ">>, <<"\n">> >>, <<>> >>,
          url |-> << <<>>, <<" ">> >>,
          price |-> NoText, loc |-> NoText, posted |-> NoText]

RawCards == {CardA, CardA2, CardB, CardT, CardW}

RECURSIVE SeqsUpTo(_, _)
SeqsUpTo(S, n) ==
    IF n = 0 THEN {<<>>}
    ELSE LET shorter == SeqsUpTo(S, n - 1)
         IN  shorter \cup {Append(t, c) : t \in shorter, c \in S}

\* the ways of cutting the card sequence flat into n pages
RECURSIVE Splits(_, _)
Splits(flat, n) ==
    IF n = 0 THEN (IF flat = <<>> THEN {<<>>} ELSE {})
    ELSE UNION { { <<SubSeq(flat, 1, k)>> \o rest :
                     rest \in Splits(SubSeq(flat, k + 1, Len(flat)), n - 1) } :
                 k \in 0..Len(flat) }

\* RAW_DIR contents: up to MaxFiles files holding up to MaxCards cards
FileLists ==
    UNION { Splits(flat, n) : flat \in SeqsUpTo(RawCards, MaxCards),
                              n \in 0..MaxFiles }

(***************************************************************************)
(* data_pipeline/scrape_kijiji.py: parse_all_snapshots                     *)
(***************************************************************************)
\* files = sorted(RAW_DIR.glob(...)); SystemExit when there is none
ParseBegin ==
    /\ pc = "parse_start"
    /\ pc' = IF raw_dir = <<>> THEN "SystemExit" ELSE "parse_files"
    /\ f_idx' = 0
    /\ all_rows' = <<>>
    /\ UNCHANGED <<row, key, key2, score, raw_dir, parsed, parsed_cols,
                   pipeline_vars>>

\* one turn of the loop: all_rows.extend(parse_search_html(html))
ParseFile ==
    /\ pc = "parse_files"
    /\ f_idx < Len(raw_dir)
    /\ all_rows' = all_rows \o parse_search_html(raw_dir[f_idx + 1])
    /\ f_idx' = f_idx + 1
    /\ UNCHANGED <<pc, row, key, key2, score, raw_dir, parsed, parsed_cols,
                   pipeline_vars>>

\* the columns the defensive loop makes sure of
ExpectedColumns ==
    {"source", "url", "title", "price_text", "location_text", "posted_text"}

\* the columns of the written table: those of the rows (none when there is
\* no row), the expected ones added where missing, and scraped_ts
Columns(rows) ==
    (IF rows = <<>> THEN {} ELSE DOMAIN rows[1])
        \cup ExpectedColumns \cup {"scraped_ts"}

\* pd.DataFrame(all_rows).drop_duplicates(subset=["url"]), written to
\* listings_raw and returned by path; the table is read back unchanged
ParseFinish ==
    /\ pc = "parse_files"
    /\ f_idx = Len(raw_dir)
    /\ parsed' = drop_duplicates_url(all_rows)
    /\ parsed_cols' = Columns(all_rows)
    /\ pc' = "parse_done"
    /\ UNCHANGED <<row, key, key2, score, raw_dir, f_idx, all_rows,
                   pipeline_vars>>

InitParse ==
    /\ pc = "parse_start"
    /\ raw_dir \in FileLists
    /\ f_idx = 0 /\ all_rows = <<>> /\ parsed = <<>> /\ parsed_cols = {}
    /\ KeyIdle /\ ScoreIdle /\ PipelineIdle

NextParse == ParseBegin \/ ParseFile \/ ParseFinish

SpecParse == InitParse /\ [][NextParse]_vars

\* every summary the files parsed so far emit, in file then in-file order
RECURSIVE Emitted(_, _)
Emitted(files, n) ==
    IF n = 0 THEN <<>>
    ELSE Emitted(files, n - 1) \o parse_search_html(files[n])

FirstWithUrl(rows, u) == rows[CHOOSE k \in 1..Len(rows) :
                              /\ rows[k].url = u
                              /\ \A j \in 1..(k - 1) : rows[j].url # u]

IsSubsequence(a, b) ==
    \E f \in [1..Len(a) -> 1..Len(b)] :
        /\ \A k \in 1..Len(a) : a[k] = b[f[k]]
        /\ \A j, k \in 1..Len(a) : j < k => f[j] < f[k]

\* C6: parse_all_snapshots keeps, of all summaries emitted by all files in
\* file-sorted then in-file order, exactly the first summary of every url:
\* no two rows share a url, every emitted summary is represented by the first
\* one with its url, nothing else is removed and the order is kept.
C6_DedupByUrlKeepsFirst ==
    pc = "parse_done" =>
        LET em == Emitted(raw_dir, Len(raw_dir))
        IN  /\ f_idx = Len(raw_dir)
            /\ \A j, k \in 1..Len(parsed) : j # k => parsed[j].url # parsed[k].url
            /\ \A n \in 1..Len(em) :
                  \E k \in 1..Len(parsed) : parsed[k] = FirstWithUrl(em, em[n].url)
            /\ Len(parsed) = Cardinality({em[n].url : n \in 1..Len(em)})
            /\ IsSubsequence(parsed, em)

\* two files emit the same url under different titles, and a third summary
\* is left alone
C6_Witness ==
    /\ pc = "parse_done"
    /\ Len(raw_dir) = 2
    /\ Len(all_rows) = 3 /\ Len(parsed) = 2
    /\ \E j \in 1..Len(all_rows) :
          /\ all_rows[j].url = parsed[1].url
          /\ all_rows[j].title # parsed[1].title

\* some selector of a text field yields a text with a non-whitespace character
HasText(sels) ==
    \E n \in 1..Len(sels) : \E m \in 1..Len(sels[n]) :
        \E c \in 1..Len(sels[n][m]) : ~IsSpace(sels[n][m][c])

\* the first match of some url selector has a non-whitespace character
HasAttr(sels) ==
    \E n \in 1..Len(sels) :
        sels[n] # None /\ \E c \in 1..Len(sels[n]) : ~IsSpace(sels[n][c])

RECURSIVE CardsWithTitleOrUrl(_)
CardsWithTitleOrUrl(html) ==
    IF html = <<>> THEN 0
    ELSE (IF HasText(html[1].title) \/ HasAttr(html[1].url) THEN 1 ELSE 0)
         + CardsWithTitleOrUrl(Tail(html))

RECURSIVE CardsKept(_, _)
CardsKept(files, n) ==
    IF n = 0 THEN 0
    ELSE CardsKept(files, n - 1) + CardsWithTitleOrUrl(files[n])

\* C7: no emitted record has both title and url null, and the records
\* emitted are as many as the cards that have a title or a url: a card whose
\* title and url selectors all yield nothing or only whitespace is dropped,
\* every other card is emitted.
C7_NoRecordWithoutTitleAndUrl ==
    pc \in {"parse_files", "parse_done"} =>
        /\ \A k \in 1..Len(all_rows) :
              ~(all_rows[k].title = None /\ all_rows[k].url = None)
        /\ \A k \in 1..Len(all_rows) :
              all_rows[k].title # <<>> /\ all_rows[k].url # <<>>
        /\ Len(all_rows) = CardsKept(raw_dir, f_idx)

\* a page with a whitespace-only card, a title-only card and a url-only card
\* has been parsed: the first is dropped, the other two are emitted
C7_Witness ==
    /\ pc = "parse_files"
    /\ f_idx = 1
    /\ raw_dir[1] = <<CardW, CardT, CardB>>
    /\ Len(all_rows) = 2
    /\ all_rows[1].url = None /\ all_rows[2].title = None

(***************************************************************************)
(* data_pipeline/utils.py: extract_beds                                    *)
(***************************************************************************)
Digits == <<"0","1","2","3","4","5","6","7","8","9">>

IsDigit(c) == \E n \in 1..10 : Digits[n] = c

DigitValue(c) == (CHOOSE n \in 1..10 : Digits[n] = c) - 1

\* int() of the digit string t[a..b]
RECURSIVE IntOf(_, _, _)
IntOf(t, a, b) ==
    IF b < a THEN 0 ELSE IntOf(t, a, b - 1) * 10 + DigitValue(t[b])

\* re.search(r"(\d+)\s*bed", t) matches with its digits at t[a..b]
BedMatch(t, a, b) ==
    /\ \A k \in a..b : IsDigit(t[k])
    /\ \E e \in b..Len(t) :
          /\ \A k \in (b + 1)..e : IsSpace(t[k])
          /\ e + 3 <= Len(t)
          /\ SubSeq(t, e + 1, e + 3) = <<"b","e","d">>

extract_beds(title) ==
    IF ~truthy(title) THEN None
    ELSE LET t == lower(title)
             starts == {a \in 1..Len(t) : \E b \in a..Len(t) : BedMatch(t, a, b)}
         IN  IF starts = {} THEN None
             ELSE LET a == CHOOSE x \in starts : \A y \in starts : x <= y
                      b == CHOOSE x \in a..Len(t) : BedMatch(t, a, x)
                  IN  IntOf(t, a, b)

(***************************************************************************)
(* data_pipeline/Scrape_kijiji_playwright.py: snapshot_search_pages and    *)
(* the retried fetch_and_wait.                                             *)
(***************************************************************************)
max_pages == 2
stop_after_attempt == 5

RECURSIVE TotalCards(_)
TotalCards(files) ==
    IF files = <<>> THEN 0 ELSE Len(files[1]) + TotalCards(Tail(files))

\* an attempt of fetch_and_wait returns the page's html, which is saved; the
\* next call of fetch_and_wait counts its attempts anew
FetchSucceeds ==
    /\ pc = "snapshot"
    /\ \E html \in SeqsUpTo(RawCards, MaxCards - TotalCards(raw_dir)) :
          raw_dir' = Append(raw_dir, html)
    /\ attempt' = 0
    /\ page_i' = page_i + 1
    /\ pc' = IF page_i = max_pages THEN "parse_start" ELSE "snapshot"
    /\ UNCHANGED <<row, key, key2, score, f_idx, all_rows, parsed,
                   parsed_cols, df, visit_vars, table_vars>>

\* the variant without @retry: the first failure propagates
FetchFailsNoRetry ==
    /\ pc = "snapshot"
    /\ attempt' = attempt + 1
    /\ pc' = "RetryError"
    /\ UNCHANGED <<row, key, key2, score, parse_vars, df, page_i, visit_vars,
                   table_vars>>

\* an attempt of fetch_and_wait raises: tenacity tries again unless this was
\* attempt number stop_after_attempt, and then raises RetryError
FetchFails ==
    /\ pc = "snapshot"
    /\ attempt' = attempt + 1
    /\ pc' = IF attempt + 1 < stop_after_attempt
             THEN "snapshot" ELSE "RetryError"
    /\ UNCHANGED <<row, key, key2, score, parse_vars, df, page_i, visit_vars,
                   table_vars>>

(***************************************************************************)
(* app/main.py: run_pipeline, from reading the parsed table to the         *)
(* detail-visit loop.                                                      *)
(***************************************************************************)
HasUrl(r) == r.url # None

\* the variant of UrlRows that also wants a title
UrlRowsTitled(t) == SelectSeq(t, LAMBDA r : r.url # None /\ r.title # None)

\* df[df["url"].notna()]
UrlRows(t) == SelectSeq(t, HasUrl)

\* the variant without the first early return
ReadParsedNoEmptyCheck ==
    /\ pc = "parse_done"
    /\ df' = UrlRows(parsed)
    /\ IF UrlRows(parsed) = <<>>
       THEN /\ pc' = "return_no_urls"
            /\ UNCHANGED <<urls, i>>
       ELSE /\ urls' = [k \in 1..Len(UrlRows(parsed)) |->
                            UrlRows(parsed)[k].url]
            /\ i' = 1
            /\ pc' = "visit"
    /\ UNCHANGED <<row, key, key2, score, parse_vars, snapshot_vars, d_cur,
                   details, outcome, started, pauses, table_vars>>

\* lines 76-100: the two early returns ("Parsed 0 listings", "No URLs to
\* visit"), then urls
ReadParsed ==
    /\ pc = "parse_done"
    /\ IF parsed = <<>>
       THEN /\ pc' = "return_parsed_0"
            /\ df' = parsed
            /\ UNCHANGED <<urls, i>>
       ELSE /\ df' = UrlRows(parsed)
            /\ IF UrlRows(parsed) = <<>>
               THEN /\ pc' = "return_no_urls"
                    /\ UNCHANGED <<urls, i>>
               ELSE /\ urls' = [k \in 1..Len(UrlRows(parsed)) |->
                                    UrlRows(parsed)[k].url]
                    /\ i' = 1
                    /\ pc' = "visit"
    /\ UNCHANGED <<row, key, key2, score, parse_vars, snapshot_vars, d_cur,
                   details, outcome, started, pauses, table_vars>>

\* what scrape_detail can return for url u: every field None or a stripped,
\* non-empty text
DetailResults(u) == {
    [url |-> u, seller_name |-> None, seller_profile_url |-> None,
     desc |-> None, posted_iso |-> None, phone_found |-> None,
     email_found |-> None, address_hint |-> None],
    [url |-> u, seller_name |-> None, seller_profile_url |-> None,
     desc |-> <<"L","o","n","g"," ","t","e","r","m">>,
     posted_iso |-> <<"2","0","2","4">>, phone_found |-> None,
     email_found |-> None, address_hint |-> <<"M","A","I","N"," ","S","T">>],
    [url |-> u, seller_name |-> <<"A","l">>,
     seller_profile_url |-> SiteOrigin \o <<"/","o">>,
     desc |-> <<"3","0","6","5","5","5","1","2","3","4">>,
     posted_iso |-> None, phone_found |-> <<"3","0","6","5","5","5","1","2","3","4">>,
     email_found |-> None, address_hint |-> <<"E","l","m">>] }

\* d.__dict__ as a row of details (no error column)
DetailRow(d) ==
    [url |-> d.url, seller_name |-> d.seller_name,
     seller_profile_url |-> d.seller_profile_url, desc |-> d.desc,
     posted_iso |-> d.posted_iso, phone_found |-> d.phone_found,
     email_found |-> d.email_found, address_hint |-> d.address_hint,
     error |-> None]

\* the record of the except branch
Placeholder(u, e) ==
    [url |-> u, seller_name |-> None, seller_profile_url |-> None,
     desc |-> None, posted_iso |-> None, phone_found |-> None,
     email_found |-> None, address_hint |-> None, error |-> e]

DumpFirst == 3

\* str(e) of the exception a failed page.goto and a failed dump raise
ScrapeError == <<"T","i","m","e","o","u","t">>
DumpError == <<"E","r","r","o","r">>

\* page.goto of scrape_detail returns: the visit goes on to scroll and extract
VisitGoto ==
    /\ pc = "visit"
    /\ started' = started + 1
    /\ pc' = "extract"
    /\ UNCHANGED <<row, key, key2, score, parse_vars, df, snapshot_vars, urls,
                   i, d_cur, details, outcome, pauses, table_vars>>

\* the variant that dumps every visited page, not only the first DumpFirst
VisitExtractAlwaysDump ==
    /\ pc = "extract"
    /\ \E d \in DetailResults(urls[i]) : d_cur' = d
    /\ pc' = "dump"
    /\ UNCHANGED <<row, key, key2, score, parse_vars, df, snapshot_vars, urls,
                   i, details, outcome, started, pauses, table_vars>>

\* scrape_detail returns d; past the first DumpFirst visits d is appended
VisitExtract ==
    /\ pc = "extract"
    /\ \E d \in DetailResults(urls[i]) :
          /\ d_cur' = d
          /\ IF i <= DumpFirst
             THEN /\ pc' = "dump"
                  /\ UNCHANGED <<details, outcome>>
             ELSE /\ details' = Append(details, DetailRow(d))
                  /\ outcome' = Append(outcome, "ok")
                  /\ pc' = "sleep"
    /\ UNCHANGED <<row, key, key2, score, parse_vars, df, snapshot_vars, urls,
                   i, started, pauses, table_vars>>

\* the variant without the try: the exception leaves the loop
ScrapeRaisesAbort ==
    /\ pc \in {"visit", "extract"}
    /\ started' = IF pc = "visit" THEN started + 1 ELSE started
    /\ pc' = "Exception"
    /\ UNCHANGED <<row, key, key2, score, parse_vars, df, snapshot_vars, urls,
                   i, d_cur, details, outcome, pauses, table_vars>>

\* the variant whose except branch ends with continue: no pause is taken
ScrapeRaisesContinue ==
    /\ pc \in {"visit", "extract"}
    /\ started' = IF pc = "visit" THEN started + 1 ELSE started
    /\ details' = Append(details, Placeholder(urls[i], ScrapeError))
    /\ outcome' = Append(outcome, "scrape_raised")
    /\ IF i < Len(urls)
       THEN i' = i + 1 /\ pc' = "visit"
       ELSE i' = i /\ pc' = "join"
    /\ UNCHANGED <<row, key, key2, score, parse_vars, df, snapshot_vars, urls,
                   d_cur, pauses, table_vars>>

\* scrape_detail raises, in page.goto or while scrolling: the except branch
\* appends the placeholder
ScrapeRaises ==
    /\ pc \in {"visit", "extract"}
    /\ started' = IF pc = "visit" THEN started + 1 ELSE started
    /\ details' = Append(details, Placeholder(urls[i], ScrapeError))
    /\ outcome' = Append(outcome, "scrape_raised")
    /\ pc' = "sleep"
    /\ UNCHANGED <<row, key, key2, score, parse_vars, df, snapshot_vars, urls,
                   i, d_cur, pauses, table_vars>>

\* dump_detail returns: details.append(d.__dict__)
DumpReturns ==
    /\ pc = "dump"
    /\ details' = Append(details, DetailRow(d_cur))
    /\ outcome' = Append(outcome, "ok")
    /\ pc' = "sleep"
    /\ UNCHANGED <<row, key, key2, score, parse_vars, df, snapshot_vars, urls,
                   i, d_cur, started, pauses, table_vars>>

\* dump_detail raises: the except branch appends the placeholder
DumpRaises ==
    /\ pc = "dump"
    /\ details' = Append(details, Placeholder(urls[i], DumpError))
    /\ outcome' = Append(outcome, "dump_raised")
    /\ pc' = "sleep"
    /\ UNCHANGED <<row, key, key2, score, parse_vars, df, snapshot_vars, urls,
                   i, d_cur, started, pauses, table_vars>>

\* sleep(random.uniform(0.4, 0.9)), then the next url or browser.close()
Sleep ==
    /\ pc = "sleep"
    /\ pauses' = pauses + 1
    /\ IF i < Len(urls)
       THEN i' = i + 1 /\ pc' = "visit"
       ELSE i' = i /\ pc' = "join"
    /\ UNCHANGED <<row, key, key2, score, parse_vars, df, snapshot_vars, urls,
                   d_cur, details, outcome, started, table_vars>>

(***************************************************************************)
(* app/main.py: run_pipeline, join, transform, dedup and export.           *)
(***************************************************************************)
NullDetail ==
    [seller_name |-> None, seller_profile_url |-> None, desc |-> None,
     posted_iso |-> None, phone_found |-> None, email_found |-> None,
     address_hint |-> None, error |-> None]

\* a row of the merged table: the listing's columns and the detail's
Merged(l, d) ==
    [source |-> l.source, url |-> l.url, title |-> l.title,
     price_text |-> l.price_text, location_text |-> l.location_text,
     posted_text |-> l.posted_text,
     seller_name |-> d.seller_name,
     seller_profile_url |-> d.seller_profile_url, desc |-> d.desc,
     posted_iso |-> d.posted_iso, phone_found |-> d.phone_found,
     email_found |-> d.email_found, address_hint |-> d.address_hint,
     error |-> d.error]

\* the rows of right whose url is u, in order
RECURSIVE Matches(_, _)
Matches(right, u) ==
    IF right = <<>> THEN <<>>
    ELSE (IF right[1].url = u THEN <<right[1]>> ELSE <<>>)
         \o Matches(Tail(right), u)

\* left.merge(right, on="url", how="left")
RECURSIVE merge_left(_, _)
merge_left(left, right) ==
    IF left = <<>> THEN <<>>
    ELSE LET m == Matches(right, left[1].url)
         IN  (IF m = <<>> THEN <<Merged(left[1], NullDetail)>>
              ELSE [k \in 1..Len(m) |-> Merged(left[1], m[k])])
             \o merge_left(Tail(left), right)

\* the columns beds, property_key and lead_score added to a merged row
Transform(r) ==
    [source |-> r.source, url |-> r.url, title |-> r.title,
     price_text |-> r.price_text, location_text |-> r.location_text,
     posted_text |-> r.posted_text, seller_name |-> r.seller_name,
     seller_profile_url |-> r.seller_profile_url, desc |-> r.desc,
     posted_iso |-> r.posted_iso, phone_found |-> r.phone_found,
     email_found |-> r.email_found, address_hint |-> r.address_hint,
     error |-> r.error,
     beds |-> extract_beds(r.title),
     property_key |-> simple_property_key(r),
     lead_score |-> lead_score(r)]

\* lines 137-148
Join ==
    /\ pc = "join"
    /\ out' = [k \in 1..Len(merge_left(df, details)) |->
                  Transform(merge_left(df, details)[k])]
    /\ pc' = "dedup"
    /\ UNCHANGED <<row, key, key2, score, parse_vars, df, snapshot_vars,
                   visit_vars, best, exported>>

\* code-point order of the characters that occur in keys
CharOrder == <<"\t", "\n", " ", "/", "0","1","2","3","4","5","6","7","8","9",
               ":", "a","b","c","d","e","f","g","h","i","j","k","l","m","n",
               "o","p","q","r","s","t","u","v","w","x","y","z">>

Ord(c) == CHOOSE n \in 1..Len(CharOrder) : CharOrder[n] = c

\* a < b for str
RECURSIVE TextLess(_, _)
TextLess(a, b) ==
    IF b = <<>> THEN FALSE
    ELSE IF a = <<>> THEN TRUE
    ELSE IF a[1] = b[1] THEN TextLess(Tail(a), Tail(b))
    ELSE Ord(a[1]) < Ord(b[1])

\* the variant of Before with lead_score ascending
BeforeAscending(a, b) ==
    \/ TextLess(a.property_key, b.property_key)
    \/ a.property_key = b.property_key /\ a.lead_score < b.lead_score

\* a sorts before b: property_key ascending, then lead_score descending
Before(a, b) ==
    \/ TextLess(a.property_key, b.property_key)
    \/ a.property_key = b.property_key /\ a.lead_score > b.lead_score

\* r put into the sorted table t behind every row that does not sort after it
RECURSIVE Insert(_, _)
Insert(t, r) ==
    IF t = <<>> THEN <<r>>
    ELSE IF Before(r, t[1]) THEN <<r>> \o t
    ELSE <<t[1]>> \o Insert(Tail(t), r)

\* sort_values(["property_key", "lead_score"], ascending=[True, False]),
\* equal rows keeping their order
RECURSIVE sort_values(_)
sort_values(t) ==
    IF t = <<>> THEN <<>>
    ELSE Insert(sort_values(SubSeq(t, 1, Len(t) - 1)), t[Len(t)])

\* drop_duplicates(subset=["property_key"])
RECURSIVE DropSeenKey(_, _)
DropSeenKey(t, seen) ==
    IF t = <<>> THEN <<>>
    ELSE IF t[1].property_key \in seen THEN DropSeenKey(Tail(t), seen)
    ELSE <<t[1]>> \o DropSeenKey(Tail(t), seen \cup {t[1].property_key})

\* .loc[:, lead_cols]
LeadCols(r) ==
    [lead_score |-> r.lead_score, title |-> r.title, beds |-> r.beds,
     price_text |-> r.price_text, location_text |-> r.location_text,
     address_hint |-> r.address_hint, seller_name |-> r.seller_name,
     phone_found |-> r.phone_found, email_found |-> r.email_found,
     url |-> r.url, seller_profile_url |-> r.seller_profile_url,
     posted_iso |-> r.posted_iso]

\* lines 161-165
Dedup ==
    /\ pc = "dedup"
    /\ best' = [k \in 1..Len(DropSeenKey(sort_values(out), {})) |->
                   LeadCols(DropSeenKey(sort_values(out), {})[k])]
    /\ pc' = "export"
    /\ UNCHANGED <<row, key, key2, score, parse_vars, df, snapshot_vars,
                   visit_vars, out, exported>>

\* lines 168-178: the sheet, or the csv when the Excel writer raises
Export ==
    /\ pc = "export"
    /\ exported' = best
    /\ pc' = "done"
    /\ UNCHANGED <<row, key, key2, score, parse_vars, df, snapshot_vars,
                   visit_vars, out, best>>

(***************************************************************************)
(* Spec: one run of run_pipeline, RAW_DIR empty before it.                 *)
(***************************************************************************)
Init ==
    /\ pc = "snapshot"
    /\ page_i = 1
    /\ attempt = 0
    /\ raw_dir = <<>> /\ f_idx = 0 /\ all_rows = <<>> /\ parsed = <<>>
    /\ parsed_cols = {}
    /\ df = <<>> /\ urls = <<>> /\ i = 0 /\ d_cur = None
    /\ details = <<>> /\ outcome = <<>> /\ started = 0 /\ pauses = 0
    /\ out = <<>> /\ best = <<>> /\ exported = None
    /\ KeyIdle /\ ScoreIdle

Next ==
    \/ FetchSucceeds \/ FetchFails
    \/ ParseBegin \/ ParseFile \/ ParseFinish
    \/ ReadParsed
    \/ VisitGoto \/ VisitExtract \/ ScrapeRaises \/ DumpReturns \/ DumpRaises
    \/ Sleep
    \/ Join \/ Dedup \/ Export

Spec == Init /\ [][Next]_vars

(***************************************************************************)
(* Properties of run_pipeline.                                             *)
(***************************************************************************)
InLoop == pc \in {"visit", "extract", "dump", "sleep"}
AfterLoop == pc \in {"join", "dedup", "export", "done"}
AfterJoin == pc \in {"dedup", "export", "done"}
AfterDedup == pc \in {"export", "done"}

EnrichmentNull(r) ==
    /\ r.seller_name = None /\ r.seller_profile_url = None /\ r.desc = None
    /\ r.posted_iso = None /\ r.phone_found = None /\ r.email_found = None
    /\ r.address_hint = None

\* C1: every input url gets exactly one record, in order; a visit that
\* failed leaves a placeholder with the url, all enrichment fields null and
\* an error text; a visit begun and not yet recorded is still under way (no
\* failure ends the loop), and after the loop every url has its record.
C1_OneRecordPerUrl ==
    /\ Len(outcome) = Len(details)
    /\ Len(details) <= Len(urls)
    /\ \A k \in 1..Len(details) :
          /\ details[k].url = urls[k]
          /\ outcome[k] # "ok" =>
                EnrichmentNull(details[k]) /\ details[k].error # None
    /\ started > Len(details) => pc \in {"extract", "dump"}
    /\ (urls # <<>> /\ ~InLoop) =>
          /\ AfterLoop
          /\ Len(details) = Len(urls)
          /\ \A n \in 1..Len(urls) :
                Cardinality({k \in 1..Len(details) : details[k].url = urls[n]}) = 1

\* the first visit failed and the second url still got an extracted record
C1_Witness ==
    /\ pc = "join"
    /\ Len(urls) = 2
    /\ outcome = <<"scrape_raised", "ok">>
    /\ details[1].url = urls[1] /\ details[1].error # None
    /\ details[2].url = urls[2] /\ details[2].error = None

Max(S) == CHOOSE x \in S : \A y \in S : y <= x

\* C2: after the dedup step every property_key of the enriched records has
\* exactly one surviving record, whose lead_score is the maximum of its
\* group, and there are no other survivors.
C2_DedupKeepsBestPerKey ==
    AfterDedup =>
        LET keys == {out[k].property_key : k \in 1..Len(out)}
            group(K) == {k \in 1..Len(out) : out[k].property_key = K}
            kept(K) == {j \in 1..Len(best) : simple_property_key(best[j]) = K}
        IN  /\ \A K \in keys :
                  /\ Cardinality(kept(K)) = 1
                  /\ \A j \in kept(K) :
                        /\ best[j].lead_score =
                               Max({out[k].lead_score : k \in group(K)})
                        /\ \E k \in group(K) : best[j] = LeadCols(out[k])
            /\ Len(best) = Cardinality(keys)

\* two listings share a property_key with different scores and one survives
C2_Witness ==
    /\ pc = "done"
    /\ Len(out) = 2 /\ Len(best) = 1
    /\ out[1].property_key = out[2].property_key
    /\ out[1].lead_score < out[2].lead_score
    /\ exported[1].url = out[2].url

\* the listing's own columns of a row
Summary(r) ==
    [source |-> r.source, url |-> r.url, title |-> r.title,
     price_text |-> r.price_text, location_text |-> r.location_text,
     posted_text |-> r.posted_text]

\* C5 as stated: every ListingSummary of the parse phase is present in the
\* enriched collection before dedup.
C5_EverySummaryEnriched ==
    AfterJoin =>
        \A k \in 1..Len(parsed) :
            \E j \in 1..Len(out) : Summary(out[j]) = parsed[k]

\* C5 as amended: every ListingSummary of the parse phase that has a url is
\* present exactly once, with its own columns, in the enriched collection
\* before dedup, a row whose detail visit failed keeping null enrichment
\* fields; the summaries without a url are left out and nothing else is.
C5_UrlSummariesEnriched ==
    AfterJoin =>
        /\ \A k \in 1..Len(parsed) :
              parsed[k].url # None =>
                  Cardinality({j \in 1..Len(out) :
                                  Summary(out[j]) = parsed[k]}) = 1
        /\ \A j \in 1..Len(out) :
              /\ out[j].url # None
              /\ \E k \in 1..Len(parsed) : Summary(out[j]) = parsed[k]
              /\ \A n \in 1..Len(urls) :
                    (urls[n] = out[j].url /\ outcome[n] # "ok") =>
                        EnrichmentNull(out[j])
        /\ Len(out) = Cardinality({k \in 1..Len(parsed) : parsed[k].url # None})

\* a summary without a url was parsed and left out, and a summary whose
\* detail visit failed is in the enriched collection with null enrichment
C5_Witness ==
    /\ pc = "dedup"
    /\ \E k \in 1..Len(parsed) : parsed[k].url = None
    /\ Len(out) = 2
    /\ outcome[1] # "ok" /\ EnrichmentNull(out[1])
    /\ outcome[2] = "ok" /\ out[2].address_hint # None

\* C8: a fetch never makes more than stop_after_attempt attempts; a page is
\* saved and the next one fetched as soon as an attempt succeeds, the run
\* goes past the snapshot phase only with every page saved, and the failure
\* propagates only after the last attempt failed, with nothing parsed,
\* visited or exported in that run.
C8_BoundedRetryThenFatal ==
    /\ attempt \in 0..stop_after_attempt
    /\ pc = "snapshot" =>
          /\ attempt < stop_after_attempt
          /\ page_i \in 1..max_pages
          /\ Len(raw_dir) = page_i - 1
    /\ pc = "RetryError" =>
          /\ attempt = stop_after_attempt
          /\ Len(raw_dir) = page_i - 1
          /\ f_idx = 0 /\ all_rows = <<>> /\ parsed = <<>> /\ df = <<>>
          /\ started = 0 /\ details = <<>> /\ out = <<>>
          /\ exported = None
    /\ pc \notin {"snapshot", "RetryError"} =>
          /\ Len(raw_dir) = max_pages
          /\ page_i = max_pages + 1
          /\ attempt = 0

\* page 1 was saved and every attempt at page 2 failed
C8_Witness ==
    /\ pc = "RetryError"
    /\ page_i = 2
    /\ Len(raw_dir) = 1
    /\ attempt = stop_after_attempt

\* C9: visit i begins only when visits 1..i-1 have ended with their records
\* appended, in the order of the url list, and i-1 pauses have been taken:
\* one between any two consecutive visits, also after a failed visit.
C9_SequentialVisitsWithPause ==
    /\ pc = "visit" =>
          started = i - 1 /\ Len(details) = i - 1 /\ pauses = i - 1
    /\ pc \in {"extract", "dump"} =>
          started = i /\ Len(details) = i - 1 /\ pauses = i - 1
    /\ pc = "sleep" =>
          started = i /\ Len(details) = i /\ pauses = i - 1
    /\ (InLoop \/ AfterLoop) =>
          /\ i \in 1..Len(urls)
          /\ \A k \in 1..Len(details) : details[k].url = urls[k]
    /\ AfterLoop =>
          started = Len(urls) /\ Len(details) = Len(urls)

\* the second visit is about to begin after a failed first visit and one pause
C9_Witness ==
    /\ pc = "visit"
    /\ i = 2
    /\ outcome = <<"scrape_raised">>
    /\ pauses = 1 /\ started = 1

(***************************************************************************)
(* SpecVisit: the detail-visit loop of run_pipeline, begun in the state    *)
(* run_pipeline is in at line 112 when the two snapshots hold between them *)
(* up to MaxUrls cards with different urls.                                *)
(***************************************************************************)
\* a card with the relative url /n and nothing else
UrlCard(n) ==
    [title |-> NoText,
     url |-> << <<"/", Digits[n + 1]>>, None >>,
     price |-> NoText, loc |-> NoText, posted |-> NoText]

\* the two snapshots of a site that lists n urls, the first half on page 1
UrlPages(n) ==
    LET h == (n + 1) \div 2
    IN  << [j \in 1..h |-> UrlCard(j)], [j \in 1..(n - h) |-> UrlCard(h + j)] >>

InitVisit ==
    /\ \E n \in 1..MaxUrls : raw_dir = UrlPages(n)
    /\ page_i = max_pages + 1 /\ attempt = 0
    /\ f_idx = Len(raw_dir)
    /\ all_rows = Emitted(raw_dir, Len(raw_dir))
    /\ parsed = drop_duplicates_url(all_rows)
    /\ parsed_cols = Columns(all_rows)
    /\ df = UrlRows(parsed)
    /\ urls = [k \in 1..Len(df) |-> df[k].url]
    /\ i = 1
    /\ pc = "visit"
    /\ d_cur = None /\ details = <<>> /\ outcome = <<>>
    /\ started = 0 /\ pauses = 0
    /\ out = <<>> /\ best = <<>> /\ exported = None
    /\ KeyIdle /\ ScoreIdle

NextVisit ==
    \/ VisitGoto \/ VisitExtract \/ ScrapeRaises \/ DumpReturns \/ DumpRaises
    \/ Sleep

SpecVisit == InitVisit /\ [][NextVisit]_vars

\* C11: the record of a url is a placeholder exactly when scrape_detail
\* raised for it or, among the first DumpFirst urls, dump_detail raised
\* after scrape_detail had returned, and then the extracted fields are
\* discarded; from url DumpFirst + 1 on no page is dumped, and the record is
\* the extracted DetailResult exactly when scrape_detail returned.
C11_PlaceholderIffRaised ==
    /\ Len(outcome) = Len(details)
    /\ \A k \in 1..Len(details) :
          /\ details[k].error # None <=>
                outcome[k] \in {"scrape_raised", "dump_raised"}
          /\ details[k].error # None =>
                EnrichmentNull(details[k]) /\ details[k].url = urls[k]
          /\ outcome[k] = "dump_raised" => k <= DumpFirst
          /\ outcome[k] = "ok" <=>
                details[k] \in {DetailRow(d) : d \in DetailResults(urls[k])}
          /\ k > DumpFirst => outcome[k] \in {"ok", "scrape_raised"}
    /\ pc = "dump" => i <= DumpFirst /\ d_cur \in DetailResults(urls[i])
    /\ (pc = "sleep" /\ outcome[i] = "ok") => details[i] = DetailRow(d_cur)
    /\ (pc = "sleep" /\ outcome[i] = "dump_raised") =>
          /\ d_cur \in DetailResults(urls[i])
          /\ details[i] = Placeholder(urls[i], DumpError)

\* the fourth url has its extracted record, undumped, after a dump failure
\* discarded the fields extracted for the first url and scrape_detail raised
\* for the third
C11_Witness ==
    /\ pc = "sleep"
    /\ i = 4
    /\ outcome = <<"dump_raised", "ok", "scrape_raised", "ok">>
    /\ EnrichmentNull(details[1]) /\ details[1].error = DumpError
    /\ details[4] = DetailRow(d_cur)
    /\ d_cur.address_hint # None

(***************************************************************************)
(* SpecRun: parse_all_snapshots on whatever RAW_DIR holds, no file         *)
(* included, followed by the steps run_pipeline takes after it.            *)
(***************************************************************************)
\* cards of the three kinds: no summary, a summary without a url, a summary
\* with a url
RunCards == {CardW, CardT, CardA}

\* RAW_DIR contents: 0..MaxFiles files holding up to MaxCards of RunCards
RunFileLists ==
    UNION { Splits(flat, n) : flat \in SeqsUpTo(RunCards, MaxCards),
                              n \in 0..MaxFiles }

InitRun ==
    /\ pc = "parse_start"
    /\ raw_dir \in RunFileLists
    /\ f_idx = 0 /\ all_rows = <<>> /\ parsed = <<>> /\ parsed_cols = {}
    /\ page_i = max_pages + 1 /\ attempt = 0
    /\ df = <<>> /\ urls = <<>> /\ i = 0 /\ d_cur = None
    /\ details = <<>> /\ outcome = <<>> /\ started = 0 /\ pauses = 0
    /\ out = <<>> /\ best = <<>> /\ exported = None
    /\ KeyIdle /\ ScoreIdle

NextRun ==
    \/ ParseBegin \/ ParseFile \/ ParseFinish
    \/ ReadParsed
    \/ VisitGoto \/ VisitExtract \/ ScrapeRaises \/ DumpReturns \/ DumpRaises
    \/ Sleep
    \/ Join \/ Dedup \/ Export

SpecRun == InitRun /\ [][NextRun]_vars

\* there are snapshot files and parse_search_html returns [] for each
NoCardEmitted ==
    /\ raw_dir # <<>>
    /\ \A f \in 1..Len(raw_dir) : parse_search_html(raw_dir[f]) = <<>>

NothingVisitedOrExported ==
    /\ started = 0 /\ details = <<>> /\ urls = <<>>
    /\ out = <<>> /\ best = <<>> /\ exported = None

\* C12: with snapshot files none of which yields a card,
\* parse_all_snapshots ends normally with an empty table that has every
\* expected column, and run_pipeline reports 0 parsed listings and returns
\* with no detail page visited and no export written; with no snapshot file
\* parse_all_snapshots ends in SystemExit, nothing written.
C12_EmptyParseReturnsEarly ==
    /\ NoCardEmitted =>
          /\ pc \in {"parse_start", "parse_files", "parse_done",
                      "return_parsed_0"}
          /\ NothingVisitedOrExported
          /\ pc \in {"parse_done", "return_parsed_0"} =>
                /\ parsed = <<>>
                /\ ExpectedColumns \subseteq parsed_cols
    /\ pc = "return_parsed_0" => parsed = <<>> /\ df = <<>>
    /\ raw_dir = <<>> =>
          /\ pc \in {"parse_start", "SystemExit"}
          /\ parsed_cols = {}
          /\ NothingVisitedOrExported
    /\ pc = "SystemExit" => raw_dir = <<>>

\* run_pipeline has returned on "Parsed 0 listings" with two snapshot files
\* that hold cards, none of them yielding a summary
C12_Witness ==
    /\ pc = "return_parsed_0"
    /\ Len(raw_dir) = 2
    /\ raw_dir[1] # <<>> /\ raw_dir[2] # <<>>
    /\ NoCardEmitted
    /\ ExpectedColumns \subseteq parsed_cols
    /\ NothingVisitedOrExported

====
